---- MODULE Spec2Model ----
(***************************************************************************)
(* CustomRedirector: the wildcard matcher and the navigation interceptor   *)
(* of src/background.js.                                                   *)
(*                                                                         *)
(* A JavaScript string is a sequence of one-character strings.  A value    *)
(* read out of a stored rule's `pattern` field is a tagged value, because  *)
(* the store is an external collaborator and the matcher guards against    *)
(* values that have no `replace` method.                                   *)
(***************************************************************************)
EXTENDS Integers, Sequences, FiniteSets, TLC

VARIABLES mPc, mUrl, mPattern, mResult,
          useSync, store, ev,
          procs, now, emptyWrites, started

matchVars == <<mPc, mUrl, mPattern, mResult>>
navVars == <<useSync, store, ev>>
opVars == <<procs, now, emptyWrites, started>>
vars == <<mPc, mUrl, mPattern, mResult, useSync, store, ev, procs, now, emptyWrites, started>>

----------------------------------------------------------------------------
(* Bounds *)

MaxPatLen == 3
MaxUrlLen == 3
MaxRules == 2
MaxChain == 3
MaxClock == 2
MaxStored == 2
MaxOps == 2

----------------------------------------------------------------------------
(* Strings *)

\* Characters the patterns and URLs of the model are built from: two
\* letters that differ only in case, a path separator, a regular-expression
\* metacharacter that is common in URLs, and the wildcard.
Alphabet == {"a", "A", "/", ".", "*"}

RECURSIVE StringsUpTo(_)
StringsUpTo(n) ==
  IF n = 0 THEN {<<>>}
  ELSE LET shorter == StringsUpTo(n - 1)
       IN shorter \cup {Append(s, c) : s \in {t \in shorter : Len(t) = n - 1}, c \in Alphabet}

Str(s) == [type |-> "string", chars |-> s]
Undefined == [type |-> "undefined", chars |-> <<>>]

RECURSIVE FlatMap(_, _)
FlatMap(f, s) == IF s = <<>> THEN <<>> ELSE f[Head(s)] \o FlatMap(f, Tail(s))

endsWith(s, suffix) ==
  /\ Len(s) >= Len(suffix)
  /\ SubSeq(s, Len(s) - Len(suffix) + 1, Len(s)) = suffix

\* Every character that can occur in a string of the model or in a compiled
\* expression.
AllChars == Alphabet \cup {":", " ", "\\", "^", "$", "+", "?", "{", "}", "(", ")", "|", "[", "]"}

----------------------------------------------------------------------------
(* matchesPattern, src/background.js:33-57 *)

\* The character class of line 37: [.+?^${}()|[\]\\]
SpecialChars == {".", "+", "?", "^", "$", "{", "}", "(", ")", "|", "[", "]", "\\"}

\* Line 37 without "." in the character class.
EscapeSpecialNoDot(s) ==
  FlatMap([c \in AllChars |-> IF c \in SpecialChars \ {"."} THEN <<"\\", c>> ELSE <<c>>], s)

\* Line 37: .replace(/[.+?^${}()|[\]\\]/g, "\\$&")
EscapeSpecial(s) ==
  FlatMap([c \in AllChars |-> IF c \in SpecialChars THEN <<"\\", c>> ELSE <<c>>], s)

\* Line 38 with "." as the replacement.
ReplaceStarOneChar(s) ==
  FlatMap([c \in AllChars |-> IF c = "*" THEN <<".">> ELSE <<c>>], s)

\* Line 38: .replace(/\*/g, ".*")
ReplaceStar(s) ==
  FlatMap([c \in AllChars |-> IF c = "*" THEN <<".", "*">> ELSE <<c>>], s)

\* Lines 42-46: the anchored source text of the expression.
Anchor(body) ==
  IF ~endsWith(body, <<".", "*">>)
  THEN <<"^">> \o body \o <<"/", "?", "$">>
  ELSE <<"^">> \o body \o <<"$">>

\* Lines 36-46.
regexPattern(p) == Anchor(ReplaceStar(EscapeSpecial(p)))

(* new RegExp(source, "i"), line 48.  The expression is parsed into a      *)
(* sequence of terms.  An assertion is [kind |-> "bol" or "eol"]; an atom  *)
(* is [kind |-> "lit" or "any", ch, q] with q the quantifier "one", "opt", *)
(* "star" or "plus".  A quantifier that follows nothing or follows an      *)
(* assertion is the SyntaxError "Nothing to repeat", and so is a trailing  *)
(* backslash.  Groups, classes, braces and alternation do not occur in     *)
(* any source text the transformation above produces from the alphabet.    *)
Quantifiers == {"*", "?", "+"}
QuantName == [c \in Quantifiers |-> CASE c = "*" -> "star" [] c = "?" -> "opt" [] OTHER -> "plus"]

RECURSIVE ParseRegex(_, _, _)
ParseRegex(src, i, acc) ==
  IF i > Len(src) THEN [error |-> FALSE, terms |-> acc]
  ELSE LET c == src[i] IN
    CASE c = "\\" ->
           IF i = Len(src) THEN [error |-> TRUE, terms |-> <<>>]
           ELSE ParseRegex(src, i + 2, Append(acc, [kind |-> "lit", ch |-> src[i + 1], q |-> "one"]))
      [] c = "^" -> ParseRegex(src, i + 1, Append(acc, [kind |-> "bol", ch |-> "", q |-> "one"]))
      [] c = "$" -> ParseRegex(src, i + 1, Append(acc, [kind |-> "eol", ch |-> "", q |-> "one"]))
      [] c = "." -> ParseRegex(src, i + 1, Append(acc, [kind |-> "any", ch |-> "", q |-> "one"]))
      [] c \in Quantifiers ->
           IF acc = <<>> \/ acc[Len(acc)].kind \in {"bol", "eol"} \/ acc[Len(acc)].q # "one"
           THEN [error |-> TRUE, terms |-> <<>>]
           ELSE ParseRegex(src, i + 1,
                  [acc EXCEPT ![Len(acc)] = [@ EXCEPT !.q = QuantName[c]]])
      [] c \in {"{", "}", "(", ")", "|", "[", "]"} -> [error |-> TRUE, terms |-> <<>>]
      [] OTHER -> ParseRegex(src, i + 1, Append(acc, [kind |-> "lit", ch |-> c, q |-> "one"]))

\* Canonicalize of the "i" flag: a character is compared by its upper case.
Canonicalize(c) == IF c = "a" THEN "A" ELSE c

\* "." accepts every character but a line terminator; the serialized URL of
\* a navigation event holds none.
LineTerminators == {"\n", "\r"}

\* Whether atom t accepts character c.
AtomAccepts(t, c) ==
  IF t.kind = "any" THEN c \notin LineTerminators
  ELSE Canonicalize(t.ch) = Canonicalize(c)

\* Backtracking match of terms i.. of re against s from position j.
RECURSIVE MatchFrom(_, _, _, _)
MatchFrom(re, i, s, j) ==
  IF i > Len(re) THEN TRUE
  ELSE LET t == re[i]
           here == j <= Len(s) /\ AtomAccepts(t, s[j])
       IN CASE t.kind = "bol" -> j = 1 /\ MatchFrom(re, i + 1, s, j)
            [] t.kind = "eol" -> j = Len(s) + 1 /\ MatchFrom(re, i + 1, s, j)
            [] t.q = "one" -> here /\ MatchFrom(re, i + 1, s, j + 1)
            [] t.q = "opt" -> (here /\ MatchFrom(re, i + 1, s, j + 1)) \/ MatchFrom(re, i + 1, s, j)
            [] t.q = "star" -> (here /\ MatchFrom(re, i, s, j + 1)) \/ MatchFrom(re, i + 1, s, j)
            [] OTHER -> here /\ (MatchFrom(re, i, s, j + 1) \/ MatchFrom(re, i + 1, s, j + 1))

\* regex.test(url), line 49: a match may start at any position.
RegexTest(re, s) == \E start \in 1..(Len(s) + 1) : MatchFrom(re, 1, s, start)

\* The try block, lines 35-52: threw is TRUE when an exception leaves it
\* (a TypeError for a pattern without a replace method, a SyntaxError from
\* the RegExp constructor).
matchesPatternTry(url, pattern) ==
  IF pattern.type # "string" THEN [threw |-> TRUE, value |-> FALSE]
  ELSE LET compiled == ParseRegex(regexPattern(pattern.chars), 1, <<>>)
       IN IF compiled.error THEN [threw |-> TRUE, value |-> FALSE]
          ELSE [threw |-> FALSE, value |-> RegexTest(compiled.terms, url)]

\* Lines 33-57 with a handler that answers true.
matchesPatternCatchTrue(url, pattern) ==
  LET r == matchesPatternTry(url, pattern)
  IN IF r.threw THEN TRUE ELSE r.value

\* Lines 33-57: the catch handler of lines 53-56 answers false.
matchesPattern(url, pattern) ==
  LET r == matchesPatternTry(url, pattern)
  IN IF r.threw THEN FALSE ELSE r.value

----------------------------------------------------------------------------
(* Stored values and navigation events *)

Stores == {"sync", "local"}
Tabs == {1, 2}

NavUrls == {<<"a", ":">>, <<"a", ":", "/">>, <<"a", ":", ".">>}
NavPatterns == {Str(<<"a", ":">>), Str(<<"*">>), Undefined}
NavRedirects == {<<"a", ":">>, <<"a", ":", ".">>}

\* The value under the key "redirectRules": absent, or a list of rules.
Missing == [present |-> FALSE, rules |-> <<>>]
Stored(rules) == [present |-> TRUE, rules |-> rules]

RuleBodies == [pattern : NavPatterns, redirect : NavRedirects, enabled : BOOLEAN]

\* Rule lists of length n; the rule at position i has id i.
RuleListsOfLen(n) ==
  {[i \in 1..n |-> [id |-> i, pattern |-> b[i].pattern, redirect |-> b[i].redirect,
                    enabled |-> b[i].enabled]] : b \in [1..n -> RuleBodies]}

RuleLists == UNION {RuleListsOfLen(n) : n \in 0..MaxRules}

\* What the store that is not selected holds: one rule that redirects every
\* URL to an address no other rule uses.
OtherStoreRules ==
  <<[id |-> 1, pattern |-> Str(<<"*">>), redirect |-> <<"a", ":", "a">>, enabled |-> TRUE]>>

NoEvent == [pc |-> "Idle", tabId |-> 1, url |-> <<>>, frameId |-> 0, storage |-> "sync",
            reads |-> 0, rules |-> <<>>, cmds |-> <<>>, chain |-> <<>>, failed |-> FALSE]

----------------------------------------------------------------------------
(* getStorage, src/background.js:5-11 *)

\* Line 8: result.useSync !== false ? chrome.storage.sync : chrome.storage.local
SelectStorage(flag) == IF flag # "false" THEN "sync" ELSE "local"

----------------------------------------------------------------------------
(* onBeforeNavigate listener, src/background.js:63-89 *)

\* Line 65 with the test dropped.
IgnoredFrameNever(frameId) == FALSE

\* Line 65: if (details.frameId !== 0) return;
IgnoredFrame(frameId) == frameId # 0

\* Line 69: result.redirectRules || []
RulesOrEmpty(value) == IF value.present THEN value.rules ELSE <<>>

\* Lines 71-86 evaluating the rules from the last to the first.
RECURSIVE EvalRulesReversed(_, _, _)
EvalRulesReversed(rules, i, details) ==
  LET k == Len(rules) + 1 - i IN
  IF i > Len(rules) THEN <<>>
  ELSE IF rules[k].enabled /\ matchesPattern(details.url, rules[k].pattern)
       THEN IF details.url = rules[k].redirect
            THEN EvalRulesReversed(rules, i + 1, details)
            ELSE <<[tabId |-> details.tabId, url |-> rules[k].redirect]>>
       ELSE EvalRulesReversed(rules, i + 1, details)

\* Lines 71-86 without the break of line 84.
RECURSIVE EvalRulesNoBreak(_, _, _)
EvalRulesNoBreak(rules, i, details) ==
  IF i > Len(rules) THEN <<>>
  ELSE IF rules[i].enabled /\ matchesPattern(details.url, rules[i].pattern)
       THEN IF details.url = rules[i].redirect
            THEN EvalRulesNoBreak(rules, i + 1, details)
            ELSE <<[tabId |-> details.tabId, url |-> rules[i].redirect]>>
                   \o EvalRulesNoBreak(rules, i + 1, details)
       ELSE EvalRulesNoBreak(rules, i + 1, details)

\* Lines 71-86 with a break in place of the continue of line 78.
RECURSIVE EvalRulesLoopBreak(_, _, _)
EvalRulesLoopBreak(rules, i, details) ==
  IF i > Len(rules) THEN <<>>
  ELSE IF rules[i].enabled /\ matchesPattern(details.url, rules[i].pattern)
       THEN IF details.url = rules[i].redirect
            THEN <<>>
            ELSE <<[tabId |-> details.tabId, url |-> rules[i].redirect]>>
       ELSE EvalRulesLoopBreak(rules, i + 1, details)

\* Lines 71-86 without the test of lines 74-79.
RECURSIVE EvalRulesNoLoopSkip(_, _, _)
EvalRulesNoLoopSkip(rules, i, details) ==
  IF i > Len(rules) THEN <<>>
  ELSE IF rules[i].enabled /\ matchesPattern(details.url, rules[i].pattern)
       THEN <<[tabId |-> details.tabId, url |-> rules[i].redirect]>>
       ELSE EvalRulesNoLoopSkip(rules, i + 1, details)

\* Lines 71-86 without the rule.enabled test of line 72.
RECURSIVE EvalRulesIgnoreEnabled(_, _, _)
EvalRulesIgnoreEnabled(rules, i, details) ==
  IF i > Len(rules) THEN <<>>
  ELSE IF matchesPattern(details.url, rules[i].pattern)
       THEN IF details.url = rules[i].redirect
            THEN EvalRulesIgnoreEnabled(rules, i + 1, details)
            ELSE <<[tabId |-> details.tabId, url |-> rules[i].redirect]>>
       ELSE EvalRulesIgnoreEnabled(rules, i + 1, details)

\* Lines 71-86: the chrome.tabs.update commands the loop issues, in order,
\* when it runs over rules from index i.
RECURSIVE EvalRules(_, _, _)
EvalRules(rules, i, details) ==
  IF i > Len(rules) THEN <<>>
  ELSE IF rules[i].enabled /\ matchesPattern(details.url, rules[i].pattern)
       THEN IF details.url = rules[i].redirect
            THEN EvalRules(rules, i + 1, details)                            \* continue, line 78
            ELSE <<[tabId |-> details.tabId, url |-> rules[i].redirect]>>    \* break, line 84
       ELSE EvalRules(rules, i + 1, details)

\* The event is delivered: line 65 returns for a frame other than the main
\* frame, otherwise getStorage issues chrome.storage.local.get (line 6).
Dispatch(tab, url, frame, chain) ==
  IF IgnoredFrame(frame)
  THEN [NoEvent EXCEPT !.pc = "NoAction", !.tabId = tab, !.url = url, !.frameId = frame,
                       !.chain = chain]
  ELSE [NoEvent EXCEPT !.pc = "GetFlag", !.tabId = tab, !.url = url, !.frameId = frame,
                       !.chain = chain, !.reads = 1]

Terminal == {"Idle", "Redirected", "NoAction", "Threw"}

\* Lines 71-86 where the loop never runs out of rules when none is selected.
OutcomeLoopsForever(cmds) == IF cmds = <<>> THEN "Looping" ELSE "Redirected"

\* How the listener ends: with the command of line 82, or with none when
\* the loop of line 71 runs out of rules.
Outcome(cmds) == IF cmds = <<>> THEN "NoAction" ELSE "Redirected"

\* The browser delivers a navigation event.
Navigate ==
  /\ ev.pc \in Terminal
  /\ \E tab \in Tabs, url \in NavUrls, frame \in {0, 1} :
       ev' = Dispatch(tab, url, frame, <<url>>)
  /\ UNCHANGED <<useSync, store>>
  /\ UNCHANGED <<matchVars, opVars>>

\* Callback of line 6 with a result: lines 7-9, then the listener's
\* callback issues storage.get (line 68).
FlagRead ==
  /\ ev.pc = "GetFlag"
  /\ ev' = [ev EXCEPT !.pc = "GetRules", !.storage = SelectStorage(useSync),
                      !.reads = @ + 1]
  /\ UNCHANGED <<useSync, store>>
  /\ UNCHANGED <<matchVars, opVars>>

\* Callback of line 6 with no result: result.useSync at line 8 throws a
\* TypeError that nothing catches.
FlagReadFails ==
  /\ ev.pc = "GetFlag"
  /\ ev' = [ev EXCEPT !.pc = "Threw", !.failed = TRUE]
  /\ UNCHANGED <<useSync, store>>
  /\ UNCHANGED <<matchVars, opVars>>

\* Callback of line 68 with a result: lines 69-86.
RulesRead ==
  /\ ev.pc = "GetRules"
  /\ LET rules == RulesOrEmpty(store[ev.storage])
         cmds == EvalRules(rules, 1, [tabId |-> ev.tabId, url |-> ev.url, frameId |-> ev.frameId])
     IN ev' = [ev EXCEPT !.pc = Outcome(cmds), !.rules = rules, !.cmds = cmds]
  /\ UNCHANGED <<useSync, store>>
  /\ UNCHANGED <<matchVars, opVars>>

\* Callback of line 68 with no result: result.redirectRules at line 69
\* throws a TypeError that nothing catches.
RulesReadFails ==
  /\ ev.pc = "GetRules"
  /\ ev' = [ev EXCEPT !.pc = "Threw", !.failed = TRUE]
  /\ UNCHANGED <<useSync, store>>
  /\ UNCHANGED <<matchVars, opVars>>

\* The tab updated at line 82 starts loading the redirect URL, which the
\* browser announces as a new main-frame navigation event of that tab.
FollowRedirect ==
  /\ ev.pc = "Redirected"
  /\ Len(ev.chain) < MaxChain
  /\ ev' = Dispatch(ev.cmds[1].tabId, ev.cmds[1].url, 0, Append(ev.chain, ev.cmds[1].url))
  /\ UNCHANGED <<useSync, store>>
  /\ UNCHANGED <<matchVars, opVars>>

----------------------------------------------------------------------------
(* Operations in flight: the listeners of src/background.js and the popup   *)
(* handlers of src/popup.js.  Every operation is a chain of callbacks; a   *)
(* process holds one operation and its position in the chain.              *)

Procs == {1, 2}

\* The ids a popup row can carry in data-id: the clock values of the model.
Ids == 0..MaxClock

\* started counts the operations begun so far.  kind "none" is a free
\* process.  pc is the callback the operation waits for: "GetFlag" (line 68
\* of popup.js, line 6 of background.js), "GetRules" (storage.get), "Set"
\* (storage.set), "SetFlag" (popup.js line 285).
IdleProc ==
  [kind |-> "none", pc |-> "Idle", storage |-> "sync", flagReads |-> 0,
   tabId |-> 1, url |-> <<>>, frameId |-> 0, cmds |-> <<>>,
   id |-> 0, checked |-> FALSE, pattern |-> <<>>, redirect |-> <<>>,
   value |-> Missing, pending |-> <<>>, wrote |-> FALSE]

OpIdle ==
  /\ procs = [p \in Procs |-> IdleProc]
  /\ now = 1
  /\ emptyWrites = [s \in Stores |-> 0]
  /\ started = 0

Finished == {"Idle", "Done", "Rejected", "Redirected", "NoAction"}

\* String.prototype.trim, popup.js lines 182-183.
RECURSIVE TrimStart(_)
TrimStart(s) == IF s # <<>> /\ Head(s) = " " THEN TrimStart(Tail(s)) ELSE s

RECURSIVE TrimEnd(_)
TrimEnd(s) ==
  IF s # <<>> /\ s[Len(s)] = " " THEN TrimEnd(SubSeq(s, 1, Len(s) - 1)) ELSE s

trim(s) == TrimEnd(TrimStart(s))

SchemeStart == {"a", "A"}
SchemeChars == {"a", "A", "."}

\* new URL(redirect) accepting every string, popup.js lines 191-196.
UrlParsesAlways(s) == TRUE

\* new URL(redirect), popup.js line 192, returns for a string that starts
\* with a scheme and a colon and throws for any other: there is no base
\* URL.  The schemes of the model are not special and what follows the
\* colon holds no character a host or a path refuses.
UrlParses(s) ==
  \E k \in 2..Len(s) :
    /\ s[k] = ":"
    /\ s[1] \in SchemeStart
    /\ \A i \in 2..(k - 1) : s[i] \in SchemeChars

\* addRule, popup.js lines 185-196: both fields are filled in and the
\* redirect is a URL.
AddInputAccepted(pattern, redirect) ==
  /\ pattern # <<>>
  /\ redirect # <<>>
  /\ UrlParses(redirect)

\* storage.get(["redirectRules"]) reading the synchronized store whatever
\* store was selected.
ReadRulesAlwaysSync(st, storage) == st["sync"]

\* storage.get(["redirectRules"], ...): the value under the key in the
\* store getStorage passed to the callback.
ReadRules(st, storage) == st[storage]

\* background.js line 19 with a test for an empty list.
InstallNeedsInitWhenEmpty(value) == RulesOrEmpty(value) = <<>>

\* background.js line 19: !result.redirectRules.  A list, empty or not, is
\* truthy.
InstallNeedsInit(value) == ~value.present

\* onInstalled, background.js lines 18-23.
InstallOnRules(pr, value) ==
  IF InstallNeedsInit(value)
  THEN [pr EXCEPT !.pc = "Set", !.value = value, !.pending = <<>>]
  ELSE [pr EXCEPT !.pc = "Done", !.value = value]

\* popup.js lines 200-211 with unshift in place of push.
AddOnRulesPrepend(pr, value, clock) ==
  [pr EXCEPT !.pc = "Set", !.value = value,
             !.pending = <<[id |-> clock, pattern |-> Str(pr.pattern),
                            redirect |-> pr.redirect, enabled |-> TRUE]>>
                          \o RulesOrEmpty(value)]

\* addRule, popup.js lines 200-211: the id is Date.now() at the time of
\* the callback.
AddOnRules(pr, value, clock) ==
  [pr EXCEPT !.pc = "Set", !.value = value,
             !.pending = Append(RulesOrEmpty(value),
                                [id |-> clock, pattern |-> Str(pr.pattern),
                                 redirect |-> pr.redirect, enabled |-> TRUE])]

\* deleteRule, popup.js lines 230-233.
DeleteOnRules(pr, value) ==
  [pr EXCEPT !.pc = "Set", !.value = value,
             !.pending = SelectSeq(RulesOrEmpty(value), LAMBDA r : r.id # pr.id)]

\* rules.find((r) => r.id === ruleId), popup.js line 252: the index of the
\* first rule with the id, 0 when there is none.
FindIndex(rules, id) ==
  IF \E i \in 1..Len(rules) : rules[i].id = id
  THEN CHOOSE i \in 1..Len(rules) :
         rules[i].id = id /\ \A j \in 1..(i - 1) : rules[j].id # id
  ELSE 0

\* toggleRule, popup.js lines 251-263.
ToggleOnRules(pr, value) ==
  LET rules == RulesOrEmpty(value)
      i == FindIndex(rules, pr.id)
  IN IF i # 0
     THEN [pr EXCEPT !.pc = "Set", !.value = value,
                     !.pending = [rules EXCEPT ![i].enabled = pr.checked]]
     ELSE [pr EXCEPT !.pc = "Done", !.value = value]

\* background.js lines 69-86 followed by the initialization of lines 19-22.
NavOnRulesInitializing(pr, value) ==
  LET cmds == EvalRules(RulesOrEmpty(value), 1,
                        [tabId |-> pr.tabId, url |-> pr.url, frameId |-> pr.frameId])
  IN IF value.present
     THEN [pr EXCEPT !.pc = Outcome(cmds), !.value = value, !.cmds = cmds]
     ELSE [pr EXCEPT !.pc = "Set", !.value = value, !.cmds = cmds, !.pending = <<>>]

\* onBeforeNavigate, background.js lines 69-86.
NavOnRules(pr, value) ==
  LET cmds == EvalRules(RulesOrEmpty(value), 1,
                        [tabId |-> pr.tabId, url |-> pr.url, frameId |-> pr.frameId])
  IN [pr EXCEPT !.pc = Outcome(cmds), !.value = value, !.cmds = cmds]

\* storage.set with the store chosen anew from the flag.
WriteTargetFromFlag(pr, flag) == SelectStorage(flag)

\* storage.set(...) in the callbacks: storage is the object getStorage
\* passed in, the one the rules were read from.
WriteTarget(pr, flag) == pr.storage

MatchIdle == mPc = "idle" /\ mUrl = <<>> /\ mPattern = Undefined /\ mResult = FALSE

NavInit ==
  /\ useSync \in {"unset", "true", "false"}
  /\ \E value \in {Missing} \cup {Stored(l) : l \in RuleLists} :
       store = [s \in Stores |-> IF s = SelectStorage(useSync) THEN value
                                 ELSE Stored(OtherStoreRules)]
  /\ ev = NoEvent
  /\ MatchIdle
  /\ OpIdle

Next ==
  \/ Navigate
  \/ FlagRead
  \/ FlagReadFails
  \/ RulesRead
  \/ RulesReadFails
  \/ FollowRedirect

Spec == NavInit /\ [][Next]_vars

----------------------------------------------------------------------------
(* Calls of matchesPattern on bounded inputs *)

NavIdle ==
  /\ useSync = "unset"
  /\ store = [s \in Stores |-> Missing]
  /\ ev = NoEvent

MatchInit ==
  /\ mPc = "call"
  /\ mUrl \in StringsUpTo(MaxUrlLen)
  /\ mPattern \in {Undefined} \cup {Str(p) : p \in StringsUpTo(MaxPatLen)}
  /\ mResult = FALSE
  /\ NavIdle
  /\ OpIdle

MatchCall ==
  /\ mPc = "call"
  /\ mResult' = matchesPattern(mUrl, mPattern)
  /\ mPc' = "returned"
  /\ UNCHANGED <<mUrl, mPattern>>
  /\ UNCHANGED <<navVars, opVars>>

MatchSpec == MatchInit /\ [][MatchCall]_vars

----------------------------------------------------------------------------
(* The listeners and the popup handlers running side by side *)

\* What the user types into the two fields of the popup.
PatternInputs == {<<" ">>, <<"*", " ">>}
RedirectInputs == {<<>>, <<"a">>, <<"a", ":">>, <<" ", "a", ":", ".">>}

\* A rule an earlier session added.
ExistingRule ==
  [id |-> 0, pattern |-> Str(<<"*">>), redirect |-> <<"a", ":", ".">>, enabled |-> TRUE]

InitialValues == {Missing, Stored(<<>>), Stored(<<ExistingRule>>)}

OpsInit ==
  /\ useSync = "unset"
  /\ store \in [Stores -> InitialValues]
  /\ ev = NoEvent
  /\ MatchIdle
  /\ OpIdle

\* chrome.runtime.onInstalled fires, background.js lines 16-17.
StartInstall ==
  /\ started < MaxOps
  /\ started' = started + 1
  /\ \E p \in Procs :
       /\ procs[p].pc \in Finished
       /\ procs' = [procs EXCEPT ![p] = [IdleProc EXCEPT !.kind = "install", !.pc = "GetFlag",
                                                         !.flagReads = 1]]
  /\ UNCHANGED <<matchVars, navVars, now, emptyWrites>>

\* Click on the add button: addRule, popup.js lines 181-198.
StartAdd ==
  /\ started < MaxOps
  /\ started' = started + 1
  /\ \E p \in Procs, patternInput \in PatternInputs, redirectInput \in RedirectInputs :
       LET pattern == trim(patternInput)
           redirect == trim(redirectInput)
       IN /\ procs[p].pc \in Finished
          /\ procs' = [procs EXCEPT ![p] =
               IF AddInputAccepted(pattern, redirect)
               THEN [IdleProc EXCEPT !.kind = "add", !.pc = "GetFlag", !.flagReads = 1,
                                     !.pattern = pattern, !.redirect = redirect]
               ELSE [IdleProc EXCEPT !.kind = "add", !.pc = "Rejected",
                                     !.pattern = pattern, !.redirect = redirect]]
  /\ UNCHANGED <<matchVars, navVars, now, emptyWrites>>

\* Click on a delete button: deleteRule, popup.js lines 225-228.
StartDelete ==
  /\ started < MaxOps
  /\ started' = started + 1
  /\ \E p \in Procs, id \in Ids :
       /\ procs[p].pc \in Finished
       /\ procs' = [procs EXCEPT ![p] = [IdleProc EXCEPT !.kind = "delete", !.pc = "GetFlag",
                                                         !.flagReads = 1, !.id = id]]
  /\ UNCHANGED <<matchVars, navVars, now, emptyWrites>>

\* Change of a rule's switch: toggleRule, popup.js lines 245-249.
StartToggle ==
  /\ started < MaxOps
  /\ started' = started + 1
  /\ \E p \in Procs, id \in Ids, isEnabled \in BOOLEAN :
       /\ procs[p].pc \in Finished
       /\ procs' = [procs EXCEPT ![p] = [IdleProc EXCEPT !.kind = "toggle", !.pc = "GetFlag",
                                                         !.flagReads = 1, !.id = id,
                                                         !.checked = isEnabled]]
  /\ UNCHANGED <<matchVars, navVars, now, emptyWrites>>

\* Change of the storage switch: toggleStorageType, popup.js lines 282-285.
StartSetFlag ==
  /\ started < MaxOps
  /\ started' = started + 1
  /\ \E p \in Procs, checked \in BOOLEAN :
       /\ procs[p].pc \in Finished
       /\ procs' = [procs EXCEPT ![p] = [IdleProc EXCEPT !.kind = "setflag", !.pc = "SetFlag",
                                                         !.checked = checked]]
  /\ UNCHANGED <<matchVars, navVars, now, emptyWrites>>

\* A navigation event is delivered, background.js lines 63-67.
StartNav ==
  /\ started < MaxOps
  /\ started' = started + 1
  /\ \E p \in Procs, frame \in {0, 1} :
       /\ procs[p].pc \in Finished
       /\ procs' = [procs EXCEPT ![p] =
            IF IgnoredFrame(frame)
            THEN [IdleProc EXCEPT !.kind = "nav", !.pc = "NoAction", !.url = <<"a", ":">>,
                                  !.frameId = frame]
            ELSE [IdleProc EXCEPT !.kind = "nav", !.pc = "GetFlag", !.url = <<"a", ":">>,
                                  !.frameId = frame, !.flagReads = 1]]
  /\ UNCHANGED <<matchVars, navVars, now, emptyWrites>>

\* Callback of chrome.storage.local.get(["useSync"]): getStorage passes the
\* selected store on, and the operation reads the rules from it.
FlagCallback ==
  /\ \E p \in Procs :
       /\ procs[p].pc = "GetFlag"
       /\ procs' = [procs EXCEPT ![p] = [@ EXCEPT !.pc = "GetRules",
                                                  !.storage = SelectStorage(useSync)]]
  /\ UNCHANGED <<matchVars, navVars, now, emptyWrites, started>>

\* Callback of storage.get(["redirectRules"]) of the operation.
RulesCallback ==
  /\ \E p \in Procs :
       LET pr == procs[p]
           value == ReadRules(store, pr.storage)
       IN /\ pr.pc = "GetRules"
          /\ pr.kind = "add" => Len(RulesOrEmpty(value)) < MaxStored
          /\ procs' = [procs EXCEPT ![p] =
               CASE pr.kind = "install" -> InstallOnRules(pr, value)
                 [] pr.kind = "add" -> AddOnRules(pr, value, now)
                 [] pr.kind = "delete" -> DeleteOnRules(pr, value)
                 [] pr.kind = "toggle" -> ToggleOnRules(pr, value)
                 [] OTHER -> NavOnRules(pr, value)]
  /\ UNCHANGED <<matchVars, navVars, now, emptyWrites, started>>

\* storage.set({redirectRules: ...}) takes effect.
WriteApplied ==
  /\ \E p \in Procs :
       LET pr == procs[p]
           target == WriteTarget(pr, useSync)
       IN /\ pr.pc = "Set"
          /\ store' = [store EXCEPT ![target] = Stored(pr.pending)]
          /\ procs' = [procs EXCEPT ![p] = [@ EXCEPT !.pc = "Done", !.wrote = TRUE]]
          /\ emptyWrites' = IF pr.kind = "install"
                            THEN [emptyWrites EXCEPT ![target] = @ + 1]
                            ELSE emptyWrites
  /\ UNCHANGED <<matchVars, useSync, ev, now, started>>

\* chrome.storage.local.set({useSync: ...}) takes effect, popup.js line 285.
FlagWritten ==
  /\ \E p \in Procs :
       /\ procs[p].pc = "SetFlag"
       /\ useSync' = IF procs[p].checked THEN "true" ELSE "false"
       /\ procs' = [procs EXCEPT ![p] = [@ EXCEPT !.pc = "Done", !.wrote = TRUE]]
  /\ UNCHANGED <<matchVars, store, ev, now, emptyWrites, started>>

\* Date.now() moves on by a millisecond.
Tick ==
  /\ now < MaxClock
  /\ now' = now + 1
  /\ UNCHANGED <<matchVars, navVars, procs, emptyWrites, started>>

OpsNext ==
  \/ StartInstall
  \/ StartAdd
  \/ StartDelete
  \/ StartToggle
  \/ StartSetFlag
  \/ StartNav
  \/ FlagCallback
  \/ RulesCallback
  \/ WriteApplied
  \/ FlagWritten
  \/ Tick

OpsSpec == OpsInit /\ [][OpsNext]_vars

----------------------------------------------------------------------------
(* Properties of the navigation listener *)

\* The listener ran lines 69-86 for the event.
Evaluated == ev.pc \in {"Redirected", "NoAction"} /\ ev.frameId = 0 /\ ev.reads = 2

\* Rule i of the snapshot is enabled and its pattern matches the event's URL.
Applies(i) == ev.rules[i].enabled /\ matchesPattern(ev.url, ev.rules[i].pattern)

\* Rule i applies and does not redirect the URL to itself.
Qualifies(i) == Applies(i) /\ ev.rules[i].redirect # ev.url

\* Rule i applies and redirects the URL to itself.
Loops(i) == Applies(i) /\ ev.rules[i].redirect = ev.url

QualifyingRules == {i \in 1..Len(ev.rules) : Qualifies(i)}

FirstQualifying == CHOOSE i \in QualifyingRules : \A j \in QualifyingRules : i <= j

\* The event ended with exactly the redirect of rule i.
RedirectedBy(i) ==
  /\ ev.pc = "Redirected"
  /\ Len(ev.cmds) = 1
  /\ ev.cmds[1].url = ev.rules[i].redirect

\* C1: for a main-frame event the listener redirects exactly to the redirect
\* of the lowest-index rule that is enabled, matches the URL and does not
\* redirect the URL to itself, and issues nothing when there is no such rule.
C1_FirstMatchWins ==
  Evaluated =>
    IF QualifyingRules = {}
    THEN ev.pc = "NoAction" /\ ev.cmds = <<>>
    ELSE RedirectedBy(FirstQualifying)

C1_Witness ==
  /\ Evaluated
  /\ Len(ev.rules) = 2
  /\ Qualifies(1) /\ Qualifies(2)
  /\ ev.rules[1].redirect # ev.rules[2].redirect
  /\ RedirectedBy(1)

\* C2: an event issues at most one chrome.tabs.update command, and the
\* command carries the tabId of the event.
C2_AtMostOneCommand ==
  /\ Len(ev.cmds) <= 1
  /\ \A k \in 1..Len(ev.cmds) : ev.cmds[k].tabId = ev.tabId

C2_Witness ==
  /\ Evaluated
  /\ Cardinality(QualifyingRules) >= 2
  /\ ev.tabId = 2
  /\ ev.cmds = <<[tabId |-> 2, url |-> ev.rules[FirstQualifying].redirect]>>

\* C3: a matching rule whose redirect equals the navigated URL produces no
\* redirect and does not end the evaluation: the first qualifying rule
\* after it is still selected.
C3_LoopRuleSkipped ==
  Evaluated =>
    /\ \A k \in 1..Len(ev.cmds) : ev.cmds[k].url # ev.url
    /\ \A i \in 1..Len(ev.rules) :
         (Loops(i) /\ QualifyingRules # {} /\ FirstQualifying > i)
           => RedirectedBy(FirstQualifying)

C3_Witness ==
  /\ Evaluated
  /\ Len(ev.rules) = 2
  /\ Loops(1) /\ Qualifies(2)
  /\ RedirectedBy(2)

\* The rule list in the store the flag selects.
CurrentRules == IF useSync = "false" THEN store["local"].rules ELSE store["sync"].rules

\* C4 as stated: the chain of redirects that follows an initial URL visits
\* no URL twice.  The rule list does not change and the listener is a
\* function of the URL, so a chain is infinite exactly when it revisits a
\* URL.
C4_NoRedirectCycle ==
  \A i, j \in 1..Len(ev.chain) : i # j => ev.chain[i] # ev.chain[j]

\* C4 amended: a redirect never targets the URL of the event that issued
\* it, and with at most one rule in the list a chain holds at most one
\* redirect.
C4_NoSelfRedirect ==
  /\ \A k \in 1..(Len(ev.chain) - 1) : ev.chain[k] # ev.chain[k + 1]
  /\ Len(CurrentRules) <= 1 => Len(ev.chain) <= 2

C4_Witness ==
  /\ Len(CurrentRules) = 1
  /\ Len(ev.chain) = 2
  /\ Evaluated
  /\ Loops(1)
  /\ ev.pc = "NoAction"

\* C5: a disabled rule produces no redirect whatever its pattern, and the
\* rules after it are still evaluated.
C5_DisabledRuleSkipped ==
  Evaluated =>
    /\ \A k \in 1..Len(ev.cmds) :
         \E i \in 1..Len(ev.rules) : ev.rules[i].enabled /\ ev.rules[i].redirect = ev.cmds[k].url
    /\ \A i \in 1..Len(ev.rules) :
         (~ev.rules[i].enabled /\ QualifyingRules # {} /\ FirstQualifying > i)
           => RedirectedBy(FirstQualifying)

C5_Witness ==
  /\ Evaluated
  /\ Len(ev.rules) = 2
  /\ ~ev.rules[1].enabled
  /\ matchesPattern(ev.url, ev.rules[1].pattern)
  /\ ev.rules[1].redirect # ev.url
  /\ ev.rules[1].redirect # ev.rules[2].redirect
  /\ Qualifies(2)
  /\ RedirectedBy(2)

\* C6: an event of a frame other than the main frame reads no storage and
\* issues no redirect.
C6_SubframeIgnored ==
  ev.frameId # 0 => ev.pc = "NoAction" /\ ev.reads = 0 /\ ev.cmds = <<>>

C6_Witness ==
  /\ ev.frameId # 0
  /\ ev.pc = "NoAction"
  /\ \E i \in 1..Len(CurrentRules) :
       /\ CurrentRules[i].enabled
       /\ matchesPattern(ev.url, CurrentRules[i].pattern)
       /\ CurrentRules[i].redirect # ev.url

\* C7: an event whose storage read delivered no result ends in NoAction
\* with no redirect, no error and no further read.
C7_ReadFailureIsNoAction ==
  ev.failed => ev.pc = "NoAction" /\ ev.cmds = <<>>

\* A pattern the try block of matchesPattern cannot turn into an expression.
Uncompilable(pattern) == pattern.type # "string"

\* Rule i is enabled, its pattern compiles and matches the event's URL, and
\* it does not redirect the URL to itself.
QualifiesCompiled(i) ==
  /\ ev.rules[i].enabled
  /\ ~Uncompilable(ev.rules[i].pattern)
  /\ matchesPatternTry(ev.url, ev.rules[i].pattern).value
  /\ ev.rules[i].redirect # ev.url

CompiledQualifying == {i \in 1..Len(ev.rules) : QualifiesCompiled(i)}

FirstCompiledQualifying == CHOOSE i \in CompiledQualifying : \A j \in CompiledQualifying : i <= j

\* C10: a rule whose pattern cannot be compiled never aborts the listener
\* and never matches: the event ends as if the rule were absent, so the
\* first rule with a compiled, matching pattern is still selected.
C10_InvalidPatternNeverMatches ==
  /\ ev.pc = "Threw" => ev.failed
  /\ Evaluated =>
       IF CompiledQualifying = {}
       THEN ev.pc = "NoAction" /\ ev.cmds = <<>>
       ELSE RedirectedBy(FirstCompiledQualifying)

C10_Witness ==
  /\ Evaluated
  /\ Len(ev.rules) = 2
  /\ ev.rules[1].enabled
  /\ Uncompilable(ev.rules[1].pattern)
  /\ ev.rules[1].redirect # ev.url
  /\ ev.rules[1].redirect # ev.rules[2].redirect
  /\ QualifiesCompiled(2)
  /\ RedirectedBy(2)

----------------------------------------------------------------------------
(* Properties of matchesPattern *)

\* Equality of two strings up to the case of their letters.
SameIgnoringCase(s, t) ==
  /\ Len(s) = Len(t)
  /\ \A i \in 1..Len(s) : s[i] = t[i] \/ {s[i], t[i]} = {"a", "A"}

StartsWithIgnoringCase(s, prefix) ==
  /\ Len(s) >= Len(prefix)
  /\ SameIgnoringCase(SubSeq(s, 1, Len(prefix)), prefix)

HasWildcard(s) == \E i \in 1..Len(s) : s[i] = "*"

Returned == mPc = "returned" /\ mPattern.type = "string"

\* C8: for a pattern without "*" the answer is true exactly when the URL is
\* the pattern, or the pattern followed by one "/", up to case.
C8_ExactMatchWithoutWildcard ==
  (Returned /\ ~HasWildcard(mPattern.chars)) =>
    mResult = (\/ SameIgnoringCase(mUrl, mPattern.chars)
               \/ SameIgnoringCase(mUrl, Append(mPattern.chars, "/")))

C8_Witness ==
  /\ Returned
  /\ ~HasWildcard(mPattern.chars)
  /\ \E i \in 1..Len(mPattern.chars) : mPattern.chars[i] = "."
  /\ mUrl # Append(mPattern.chars, "/")
  /\ SameIgnoringCase(mUrl, Append(mPattern.chars, "/"))
  /\ mResult = TRUE

\* The text of a pattern before its last character.
BeforeLast(s) == SubSeq(s, 1, Len(s) - 1)

EndsInWildcard == Returned /\ mPattern.chars # <<>> /\ mPattern.chars[Len(mPattern.chars)] = "*"

\* C9 as stated: for a pattern ending in "*" the answer is true exactly when
\* the URL starts, up to case, with the text before the final "*".
C9_TrailingWildcardIsPrefixMatch ==
  EndsInWildcard => mResult = StartsWithIgnoringCase(mUrl, BeforeLast(mPattern.chars))

\* C9 amended: every URL that starts with the text before the final "*" is
\* accepted, and when that text holds no further "*" every other URL is
\* rejected.
C9_TrailingWildcardAcceptsPrefix ==
  EndsInWildcard =>
    /\ StartsWithIgnoringCase(mUrl, BeforeLast(mPattern.chars)) => mResult = TRUE
    /\ ~HasWildcard(BeforeLast(mPattern.chars))
         => (mResult = TRUE => StartsWithIgnoringCase(mUrl, BeforeLast(mPattern.chars)))

C9_Witness ==
  /\ EndsInWildcard
  /\ Len(mPattern.chars) >= 2
  /\ ~HasWildcard(BeforeLast(mPattern.chars))
  /\ Len(mUrl) > Len(mPattern.chars) - 1
  /\ mUrl[Len(mUrl)] = "/"
  /\ mUrl[1] # mPattern.chars[1]
  /\ mResult = TRUE

----------------------------------------------------------------------------
(* Properties of the operations running side by side *)

\* C11: onInstalled writes nothing when the key "redirectRules" exists in
\* the store it read, an empty list included, and writes the empty list
\* when the key does not exist.
C11_InstallIdempotent ==
  \A p \in Procs :
    (procs[p].kind = "install" /\ procs[p].pc \in {"Set", "Done"}) =>
      IF procs[p].value.present
      THEN procs[p].pc = "Done" /\ ~procs[p].wrote
      ELSE (procs[p].pc = "Set" \/ procs[p].wrote) /\ procs[p].pending = <<>>

C11_Witness ==
  \E p \in Procs :
    /\ procs[p].kind = "install"
    /\ procs[p].pc = "Done"
    /\ procs[p].value = Stored(<<>>)
    /\ ~procs[p].wrote
    /\ store[procs[p].storage] = Stored(<<>>)
    /\ emptyWrites[procs[p].storage] = 0

\* C12: no step of the navigation listener changes the rule list of either
\* store or the storage flag.
C12_NavNeverWrites ==
  [][\A p \in Procs :
       (procs'[p] # procs[p] /\ procs'[p].kind = "nav")
         => (store' = store /\ useSync' = useSync)]_vars

C12_Witness ==
  \E p \in Procs :
    /\ procs[p].kind = "nav" /\ procs[p].pc = "NoAction" /\ procs[p].frameId = 0
    /\ procs[p].value = Missing
    /\ store[procs[p].storage] = Missing
    /\ \A s \in Stores : emptyWrites[s] = 0

\* C13: no two rules of a stored list have the same id.
C13_UniqueIds ==
  \A s \in Stores :
    \A i, j \in 1..Len(store[s].rules) :
      i # j => store[s].rules[i].id # store[s].rules[j].id

\* A string made of a scheme, a colon and anything after it.
WellFormedRedirect(s) ==
  \E k \in 1..Len(s) :
    /\ k >= 2
    /\ s[k] = ":"
    /\ \A i \in 1..(k - 1) : s[i] \in {"a", "A"} \/ (i > 1 /\ s[i] = ".")

\* C14: every stored rule has a non-empty pattern and a well-formed
\* redirect, and addRule with an empty pattern, an empty redirect or a
\* redirect that is not a URL reads and writes nothing.
C14_OnlyValidRulesStored ==
  /\ \A s \in Stores :
       \A i \in 1..Len(store[s].rules) :
         /\ store[s].rules[i].pattern.type = "string"
         /\ store[s].rules[i].pattern.chars # <<>>
         /\ WellFormedRedirect(store[s].rules[i].redirect)
  /\ \A p \in Procs :
       (/\ procs[p].kind = "add"
        /\ \/ procs[p].pattern = <<>>
           \/ procs[p].redirect = <<>>
           \/ ~WellFormedRedirect(procs[p].redirect))
         => (/\ procs[p].pc = "Rejected"
             /\ procs[p].flagReads = 0
             /\ procs[p].pending = <<>>
             /\ ~procs[p].wrote)

C14_Witness ==
  \E p \in Procs :
    /\ procs[p].kind = "add"
    /\ procs[p].pc = "Rejected"
    /\ procs[p].pattern # <<>>
    /\ procs[p].redirect # <<>>
    /\ ~WellFormedRedirect(procs[p].redirect)

\* C15: over all invocations of onInstalled, overlapping ones included, at
\* most one write of the empty list reaches a given store.
C15_AtMostOneEmptyWrite == \A s \in Stores : emptyWrites[s] <= 1

\* Rule i of a list is enabled, matches the URL and does not redirect the
\* URL to itself.
QualifiesIn(rules, i, url) ==
  /\ rules[i].enabled
  /\ matchesPattern(url, rules[i].pattern)
  /\ rules[i].redirect # url

\* The commands first-match-wins prescribes for a list and an event.
ExpectedCommands(rules, url, tab) ==
  LET Q == {i \in 1..Len(rules) : QualifiesIn(rules, i, url)}
  IN IF Q = {} THEN <<>>
     ELSE <<[tabId |-> tab, url |-> rules[CHOOSE i \in Q : \A j \in Q : i <= j].redirect]>>

\* The list under the key in store s, empty when the key is absent.
ListIn(s) == IF store[s].present THEN store[s].rules ELSE <<>>

\* C16: a navigation event decides on the list its store holds at the time
\* of its read; the outcome is final, and a step of one operation changes
\* no other operation.
C16_EventDecidesOnItsSnapshot ==
  [][\A p \in Procs :
       /\ (procs[p].kind = "nav" /\ procs[p].pc = "GetRules" /\ procs'[p] # procs[p])
            => /\ procs'[p].cmds =
                    ExpectedCommands(ListIn(procs[p].storage), procs[p].url, procs[p].tabId)
               /\ procs'[p].pc = IF procs'[p].cmds = <<>> THEN "NoAction" ELSE "Redirected"
       /\ (procs[p].kind = "nav" /\ procs[p].pc \in {"Redirected", "NoAction"}
             /\ procs'[p] # procs[p])
            => started' = started + 1
       /\ procs'[p] # procs[p] => \A q \in Procs \ {p} : procs'[q] = procs[q]]_vars

C16_Witness ==
  \E p, q \in Procs :
    /\ procs[p].kind = "nav" /\ procs[p].pc = "Redirected"
    /\ ExpectedCommands(ListIn(procs[p].storage), procs[p].url, procs[p].tabId) = <<>>
    /\ procs[q].kind \in {"delete", "toggle"} /\ procs[q].wrote
    /\ procs[q].storage = procs[p].storage

\* Operations that read the list and may write it back.
ReadModifyWrite == {"install", "add", "delete", "toggle"}

FlagReadCompletes == FlagReadFails \/ FlagRead

\* The callback of line 68 is invoked, with or without a result.
RulesReadCompletes == RulesReadFails \/ RulesRead

\* The listener with the browser invoking the callback of every read.
LiveSpec ==
  Spec /\ WF_vars(FlagReadCompletes) /\ WF_vars(RulesReadCompletes)

\* C18: every top-frame event whose reads complete reaches Redirected or
\* NoAction; an event whose read yields no result leaves as failed.
C18_EventTerminates ==
  (ev.pc \in {"GetFlag", "GetRules"}) ~> (ev.pc \in {"Redirected", "NoAction"} \/ ev.failed)

C18_Witness ==
  /\ ev.pc = "NoAction"
  /\ ev.frameId = 0
  /\ ~ev.failed
  /\ Len(ev.rules) >= 2
  /\ ev.reads = 2

\* The indices of the rules of a list whose id differs from id, in order.
KeptIndices(rules, id) == {i \in 1..Len(rules) : rules[i].id # id}

\* The k-th smallest element of a set of indices.
KthOf(S, k) == CHOOSE i \in S : Cardinality({j \in S : j <= i}) = k

\* C19: add appends one enabled rule and keeps the rest; delete removes
\* exactly the rules with the id and keeps the order of the others; toggle
\* changes only the enabled field of the rule with the id and writes
\* nothing when no rule has it.
C19_UntargetedRulesPreserved ==
  \A p \in Procs :
    LET pr == procs[p]
        old == RulesOrEmpty(pr.value)
        new == pr.pending
    IN (pr.pc \in {"Set", "Done"}) =>
         /\ pr.kind = "add" =>
              /\ Len(new) = Len(old) + 1
              /\ \A i \in 1..Len(old) : new[i] = old[i]
              /\ new[Len(new)].enabled = TRUE
              /\ new[Len(new)].pattern = Str(pr.pattern)
              /\ new[Len(new)].redirect = pr.redirect
         /\ pr.kind = "delete" =>
              /\ Len(new) = Cardinality(KeptIndices(old, pr.id))
              /\ \A k \in 1..Len(new) : new[k] = old[KthOf(KeptIndices(old, pr.id), k)]
         /\ pr.kind = "toggle" =>
              IF \E i \in 1..Len(old) : old[i].id = pr.id
              THEN /\ Len(new) = Len(old)
                   /\ \E i \in 1..Len(old) :
                        /\ old[i].id = pr.id
                        /\ new[i] = [old[i] EXCEPT !.enabled = pr.checked]
                        /\ \A j \in (1..Len(old)) \ {i} : new[j] = old[j]
              ELSE pr.pc = "Done" /\ ~pr.wrote

C19_Witness ==
  \E p, q \in Procs :
    /\ procs[q].kind = "add" /\ procs[q].wrote
    /\ procs[q].value = Stored(<<ExistingRule>>)
    /\ procs[p].kind = "delete" /\ procs[p].wrote
    /\ procs[p].value = Stored(procs[q].pending)
    /\ procs[p].id = ExistingRule.id
    /\ procs[p].pending = <<procs[q].pending[2]>>

\* C20: a rule present in a store stays there until a delete of its own id
\* is written; no write of another operation removes it.
C20_NoLostUpdate ==
  [][\A s \in Stores :
       \A i \in 1..Len(ListIn(s)) :
         LET id == ListIn(s)[i].id
         IN \/ \E j \in 1..Len(store'[s].rules) :
                 store'[s].present /\ store'[s].rules[j].id = id
            \/ \E p \in Procs :
                 /\ procs[p].kind = "delete" /\ procs[p].id = id
                 /\ procs[p].pc = "Set" /\ procs'[p].pc = "Done"]_vars

====
